---- MODULE Spec2Model ----
(***************************************************************************)
(* Model of crust's UDP service discovery (src/src/service_discovery/      *)
(* mod.rs).  Each ServiceDiscovery instance is a record holding the fields *)
(* of the struct, the registration of its socket with the mio event loop,  *)
(* its two entries in Core's registry and the receive buffer of its        *)
(* socket.  The handlers read, write, write_impl, ready and terminate are  *)
(* operators on a "call" record: the instance plus a trace of what the     *)
(* call did (the send_to calls, the observers notified, the terminate      *)
(* invocations).  One action runs one whole handler.                       *)
(* Further parts, each with a specification of its own: the port scan of   *)
(* get_socket, the command loop of src/src/compat/event_loop.rs, the mutex *)
(* of the shared listener list, and the outgoing bootstrap.                *)
(***************************************************************************)
EXTENDS Naturals, Sequences, FiniteSets, TLC

VARIABLES
    sd,             \* node -> the ServiceDiscovery instance, its registration and socket
    our_listeners,  \* node -> the shared Vec<MappedAddr> (Arc<Mutex<..>>)
    rx_open,        \* observer -> its Receiver still exists (Sender::send returns Ok)
    obs_used,       \* the Senders already moved into register_observer
    seeks,          \* number of seek_peers commands the clients have sent
    last,           \* trace of the most recent handler call
    scan,           \* get_socket: the running port scan
    el,             \* compat::event_loop: the caller, the reactor thread and their channels
    lk,             \* the mutex of our_listeners and the threads using it
    boot,           \* the bootstrap attempt
    accepted,       \* node -> the source addresses of the Requests its instance accepted
    unanswered,     \* node -> the sources of the accepted Requests not answered yet, oldest first
    fw,             \* examples/crust_node: the FlatWorld of the event-handling thread
    dup,            \* two connections between one pair of nodes
    fs              \* the outbound side of one framed socket

vars == <<sd, our_listeners, rx_open, obs_used, seeks, last, scan, el, lk, boot, accepted,
          unanswered, fw, dup, fs>>

----------------------------------------------------------------------------
\* Bounds of the model.

\* Longest reply_to queue the environment is allowed to build up.
MaxQueue == 2
\* Most datagrams waiting unread in a socket's receive buffer.
MaxInbox == 1
\* Most unread datagrams in the scenarios with a fair reactor.
MaxBacklog == 2
\* seek_peers calls in the beacon scenario.
MaxSeeks == 1
\* Number of ports, counted down from 65535, get_socket is started on.
MaxScan == 6
\* Commands each producer thread sends through the EventLoop handle.
MaxCmds == 2
\* Longest shared listener list the Listener thread builds.
MaxList == 3

----------------------------------------------------------------------------
\* Values.

Nodes == {"A", "B"}
\* Peer socket addresses: the two instances and one foreign host.
Addr == {"A", "B", "C"}
Observers == {"o1", "o2", "o3"}

\* guid: rand::random() per instance; the two instances drew different values.
GuidOf(n) == IF n = "A" THEN "gA" ELSE "gB"

MappedAddr(a, r) == [addr |-> a, nat_restricted |-> r]

\* Values the Listener thread puts into our_listeners.
ListenerLists ==
    { <<>>,
      << MappedAddr("a1", FALSE) >>,
      << MappedAddr("a2", TRUE), MappedAddr("a3", FALSE), MappedAddr("a1", FALSE) >>,
      << MappedAddr("a2", TRUE) >> }

\* DiscoveryMsg on the wire, with the sender's address as recv_from reports it.
\* kind "Bogus" is a datagram deserialise() rejects.
Request(g, from) == [kind |-> "Request", guid |-> g, payload |-> <<>>, from |-> from]
Response(addrs, from) == [kind |-> "Response", guid |-> "-", payload |-> addrs, from |-> from]
Bogus(from) == [kind |-> "Bogus", guid |-> "-", payload |-> <<>>, from |-> from]
NoDgram == [kind |-> "none", guid |-> "-", payload |-> <<>>, from |-> "-"]

\* Results of UdpSocket::send_to: Ok(Some(_)), Ok(None), Err(Interrupted),
\* Err(WouldBlock), any other Err.
SendResults == {"ok", "none", "interrupted", "wouldblock", "fatal"}
TransientSend == {"none", "interrupted", "wouldblock"}
\* Results of EventLoop::reregister.
ReregResults == {"ok", "err"}

----------------------------------------------------------------------------
\* VecDeque / Vec operations used by the code.

\* Mutation of pop_front: the front address stays in the queue.
pop_front_kept(q) == q

pop_front(q) == Tail(q)
\* Mutation of push_front: the address is put at the back.
push_front_at_back(q, x) == Append(q, x)

push_front(q, x) == <<x>> \o q

\* Mutation of push_back: the address is put at the front.
push_back_at_front(q, x) == <<x>> \o q

push_back(q, x) == Append(q, x)

\* Mutation of our_current_listeners: the filter is left out.
our_current_listeners_unfiltered(L) == [i \in 1..Len(L) |-> L[i].addr]

\* our_listeners.iter().filter(|elt| !elt.nat_restricted).map(|elt| elt.addr).collect()
our_current_listeners(L) ==
    LET kept == SelectSeq(L, LAMBDA elt : ~elt.nat_restricted)
    IN  [i \in 1..Len(kept) |-> kept[i].addr]

----------------------------------------------------------------------------
\* get_socket: the port scan of start.

\* std::u16::MAX
u16_MAX == 65535
\* The port the test starts both instances on.
TestPort == 65530

\* The ports get_socket is called with: the highest MaxScan ports (the test
\* starts at 65530).
StartPorts == (u16_MAX + 1 - MaxScan)..u16_MAX

\* Results of UdpSocket::v4() and of UdpSocket::bind.
SocketResults == {"ok", "err"}
BindResults == {"ok", "addrinuse", "eacces"}

\* The locals of get_socket when it is entered with port p; tried lists the
\* bind calls made so far.
scan_init(p) ==
    [pc |-> "loop", p |-> p, port |-> p, res |-> [kind |-> "unset", port |-> 0, err |-> "-"],
     tried |-> <<>>]

\* port += 1 on a u16.
port_inc(port) == (port + 1) % (u16_MAX + 1)

\* Mutation of the loop body: the test port == u16::MAX is left out.
get_socket_step_no_max_check(sc, v4, bind) ==
    IF v4 # "ok"
    THEN [sc EXCEPT !.pc = "done", !.res = [kind |-> "Err", port |-> sc.port, err |-> "socket"]]
    ELSE
        LET tried == Append(sc.tried, [port |-> sc.port, res |-> bind])
        IN  IF bind = "ok"
            THEN [sc EXCEPT !.pc = "done", !.tried = tried,
                            !.res = [kind |-> "Ok", port |-> sc.port, err |-> "-"]]
            ELSE [sc EXCEPT !.port = port_inc(sc.port), !.tried = tried,
                            !.res = [kind |-> "Err", port |-> sc.port, err |-> bind]]

\* One iteration of the loop of get_socket: v4 is the result of
\* UdpSocket::v4() (try! returns its error), bind the result of bind.
get_socket_step(sc, v4, bind) ==
    IF v4 # "ok"
    THEN [sc EXCEPT !.pc = "done", !.res = [kind |-> "Err", port |-> sc.port, err |-> "socket"]]
    ELSE
        LET tried == Append(sc.tried, [port |-> sc.port, res |-> bind])
        IN  IF bind = "ok"
            THEN [sc EXCEPT !.pc = "done", !.tried = tried,
                            !.res = [kind |-> "Ok", port |-> sc.port, err |-> "-"]]
            ELSE IF sc.port = u16_MAX
            THEN [sc EXCEPT !.pc = "done", !.tried = tried,
                            !.res = [kind |-> "Err", port |-> sc.port, err |-> bind]]
            ELSE [sc EXCEPT !.port = port_inc(sc.port), !.tried = tried,
                            !.res = [kind |-> "Err", port |-> sc.port, err |-> bind]]

\* get_socket run to its end when the ports in busy are taken and no other
\* call fails.
RECURSIVE get_socket_run(_, _)
get_socket_run(sc, busy) ==
    IF sc.pc = "done" THEN sc
    ELSE get_socket_run(get_socket_step(sc, "ok", IF sc.port \in busy THEN "addrinuse" ELSE "ok"),
                        busy)

get_socket(port, busy) == get_socket_run(scan_init(port), busy).res

----------------------------------------------------------------------------
\* A call record: the instance s and the trace of the running handler call.

Call(s) == [s |-> s, writes |-> <<>>, notified |-> <<>>, terms |-> 0]

\* The fields of an instance a handler may change, without the socket's buffer
\* and pending events.
Fields(s) ==
    [listen |-> s.listen, reply_to |-> s.reply_to, observers |-> s.observers,
     guid |-> s.guid, registered |-> s.registered, interest_w |-> s.interest_w,
     ctx |-> s.ctx, state |-> s.state]

\* Mutation of terminate: the context -> state entry is left in place.
terminate_context_only(k) ==
    [k EXCEPT !.s.registered = FALSE,
              !.s.interest_w = IF k.s.registered THEN FALSE ELSE @,
              !.s.rEdge = FALSE,
              !.s.wEdge = FALSE,
              !.s.ctx = FALSE,
              !.terms = @ + 1]

\* State::terminate: deregister the socket (an error is only logged), then
\* remove the token -> context entry and, if there was one, the context -> state
\* entry.
terminate(k) ==
    [k EXCEPT !.s.registered = FALSE,
              !.s.interest_w = IF k.s.registered THEN FALSE ELSE @,
              !.s.rEdge = FALSE,
              !.s.wEdge = FALSE,
              !.s.ctx = FALSE,
              !.s.state = IF k.s.ctx THEN FALSE ELSE @,
              !.terms = @ + 1]

\* EventLoop::reregister(socket, token, event_set, PollOpt::edge()): fails on a
\* socket that is not registered; otherwise the result rr is the system's.
\* A successful re-registration re-arms the edge-triggered readable event when
\* the socket holds unread datagrams, and drops a pending writable event when
\* writable is no longer asked for.
reregister_ok(s, rr) == s.registered /\ rr = "ok"

\* Mutation of reregister: writable interest is never registered.
reregister_without_writable(s, want_w) ==
    [s EXCEPT !.interest_w = FALSE,
              !.rEdge = @ \/ s.inbox # <<>>,
              !.wEdge = FALSE]

reregister(s, want_w) ==
    [s EXCEPT !.interest_w = want_w,
              !.rEdge = @ \/ s.inbox # <<>>,
              !.wEdge = @ /\ want_w]

\* write_impl: the result is [k |-> call record, ok |-> Ok(()) or Err].
\* snd is the result of send_to (if a peer is pending), rr of reregister.
write_impl(k, L, snd, rr) ==
    LET payload == our_current_listeners(L)
        q       == k.s.reply_to
        has     == q # <<>>
        peer    == IF has THEN Head(q) ELSE "-"
        popped  == IF has THEN pop_front(q) ELSE q
        after   == IF has /\ snd \in TransientSend THEN push_front(popped, peer) ELSE popped
        sendErr == has /\ snd = "fatal"
        want_w  == after # <<>>
        s1      == [k.s EXCEPT !.reply_to = after]
        rrOk    == reregister_ok(s1, rr)
        entry   == [peer |-> peer, payload |-> payload,
                    res |-> IF has THEN snd ELSE "nopeer",
                    before |-> q, after |-> after,
                    event_set |-> IF sendErr THEN "-"
                                  ELSE IF want_w THEN "readable|writable" ELSE "readable",
                    rereg |-> IF sendErr THEN "skipped" ELSE IF rrOk THEN "ok" ELSE "err"]
        k1      == [k EXCEPT !.writes = Append(@, entry)]
    IN  IF sendErr THEN [k |-> [k1 EXCEPT !.s = s1], ok |-> FALSE]
        ELSE IF rrOk THEN [k |-> [k1 EXCEPT !.s = reregister(s1, want_w)], ok |-> TRUE]
        ELSE [k |-> [k1 EXCEPT !.s = s1], ok |-> FALSE]

\* Mutation of write: the Err of write_impl is only logged.
write_ignoring_err(k, L, snd, rr) == write_impl(k, L, snd, rr).k

\* write: write_impl, and terminate on Err.
write(k, L, snd, rr) ==
    LET r == write_impl(k, L, snd, rr)
    IN  IF r.ok THEN r.k ELSE terminate(r.k)

\* Mutation of the fan-out: an observer whose send failed stays registered.
retain_send_keep_all(k, open, peer_listeners) ==
    LET kept == SelectSeq(k.s.observers, LAMBDA obs : open[obs])
    IN  [k EXCEPT !.notified = @ \o [i \in 1..Len(kept) |->
                                        [obs |-> kept[i], list |-> peer_listeners]]]

\* self.observers.retain(|obs| obs.send(peer_listeners.clone()).is_ok())
retain_send(k, open, peer_listeners) ==
    LET kept == SelectSeq(k.s.observers, LAMBDA obs : open[obs])
    IN  [k EXCEPT !.s.observers = kept,
                  !.notified = @ \o [i \in 1..Len(kept) |->
                                        [obs |-> kept[i], list |-> peer_listeners]]]

\* Mutation of read: the guid of a Request is not compared with our own.
read_no_guid_check(k, rcv, L, open, snd, rr) ==
    IF rcv = "fatal" THEN terminate(k)
    ELSE IF rcv # "ok" THEN k
    ELSE
        LET msg == Head(k.s.inbox)
            k1  == [k EXCEPT !.s.inbox = Tail(@)]
        IN  CASE msg.kind = "Request" ->
                    IF k1.s.listen
                    THEN write([k1 EXCEPT !.s.reply_to = push_back(@, msg.from)], L, snd, rr)
                    ELSE k1
              [] msg.kind = "Response" -> retain_send(k1, open, msg.payload)
              [] OTHER -> k1

\* Mutation of read: a Request is answered whether or not listen is set.
read_no_listen_check(k, rcv, L, open, snd, rr) ==
    IF rcv = "fatal" THEN terminate(k)
    ELSE IF rcv # "ok" THEN k
    ELSE
        LET msg == Head(k.s.inbox)
            k1  == [k EXCEPT !.s.inbox = Tail(@)]
        IN  CASE msg.kind = "Request" ->
                    IF k1.s.guid # msg.guid
                    THEN write([k1 EXCEPT !.s.reply_to = push_back(@, msg.from)], L, snd, rr)
                    ELSE k1
              [] msg.kind = "Response" -> retain_send(k1, open, msg.payload)
              [] OTHER -> k1

\* Mutation of read: a datagram that does not decode ends the state, like a
\* receive error.
read_decode_err_terminates(k, rcv, L, open, snd, rr) ==
    IF rcv = "fatal" THEN terminate(k)
    ELSE IF rcv # "ok" THEN k
    ELSE
        LET msg == Head(k.s.inbox)
            k1  == [k EXCEPT !.s.inbox = Tail(@)]
        IN  CASE msg.kind = "Request" ->
                    IF k1.s.listen /\ k1.s.guid # msg.guid
                    THEN write([k1 EXCEPT !.s.reply_to = push_back(@, msg.from)], L, snd, rr)
                    ELSE k1
              [] msg.kind = "Response" -> retain_send(k1, open, msg.payload)
              [] OTHER -> terminate(k1)

\* read: rcv is the result of recv_from: "ok" (a datagram, the head of the
\* socket's buffer), "none" (Ok(None)), "interrupted", "fatal" (any other Err).
read(k, rcv, L, open, snd, rr) ==
    IF rcv = "fatal" THEN terminate(k)
    ELSE IF rcv # "ok" THEN k
    ELSE
        LET msg == Head(k.s.inbox)
            k1  == [k EXCEPT !.s.inbox = Tail(@)]
        IN  CASE msg.kind = "Request" ->
                    IF k1.s.listen /\ k1.s.guid # msg.guid
                    THEN write([k1 EXCEPT !.s.reply_to = push_back(@, msg.from)], L, snd, rr)
                    ELSE k1
              [] msg.kind = "Response" -> retain_send(k1, open, msg.payload)
              [] OTHER -> k1

\* State::ready.  The trace also keeps the instance as it was between the
\* read and the write of the call.
ready(k, es, rcv, L, open, snd1, rr1, snd2, rr2) ==
    IF "error" \in es \/ "hup" \in es
    THEN [call |-> terminate(k), mid |-> Fields(k.s)]
    ELSE
        LET k1 == IF "readable" \in es THEN read(k, rcv, L, open, snd1, rr1) ELSE k
            k2 == IF "writable" \in es THEN write(k1, L, snd2, rr2) ELSE k1
        IN  [call |-> k2, mid |-> Fields(k1.s)]

----------------------------------------------------------------------------
\* The trace variable.

Trace(op, n, es, rcv, dgram, pre, mid, k) ==
    [op |-> op, n |-> n, es |-> es, rcv |-> rcv, dgram |-> dgram, seek |-> "-",
     start |-> "-", sent |-> <<>>, ret |-> "-",
     pre |-> pre, mid |-> mid,
     writes |-> k.writes, notified |-> k.notified, terms |-> k.terms]

\* The trace of a step that is no ready call.
Quiet(op, n, s) ==
    Trace(op, n, {}, "-", NoDgram, Fields(s), Fields(s), Call(s))

\* Commands and environment steps whose trace no property reads.
Idle(n, s) == Quiet("idle", n, s)

----------------------------------------------------------------------------
\* Initial states.

\* The values of the variables of the parts of the program a specification
\* leaves out.
NoScan == [pc |-> "off"]
NoLoop == [pc |-> "off"]
NoLock == [pc |-> "off"]
NoBoot == [pc |-> "off"]

\* Only the discovery instances run.
OnlyDiscovery == scan = NoScan /\ el = NoLoop /\ lk = NoLock /\ boot = NoBoot

\* No Request has been accepted yet.
NoneAccepted == [n \in Nodes |-> {}]
NoneUnanswered == [n \in Nodes |-> <<>>]

\* The example's event thread, the connections of a pair of nodes and the
\* framed socket when they are not part of the scenario.
NotRunning == [pc |-> "off"]

\* ServiceDiscovery::start succeeded: listen false, nothing queued, no
\* observers, socket registered for error | hup | readable, both registry
\* entries inserted.
StartedAt(n, port, bound) ==
    [listen |-> FALSE, reply_to |-> <<>>, observers |-> <<>>, guid |-> GuidOf(n),
     registered |-> TRUE, interest_w |-> FALSE, ctx |-> TRUE, state |-> TRUE,
     inbox |-> <<>>, rEdge |-> FALSE, wEdge |-> FALSE,
     port |-> port, bound |-> bound]

\* start(.., 65530) as in the test, the port being free.
Started(n) == StartedAt(n, TestPort, TestPort)

\* No instance was started on the node.
Absent(n) ==
    [listen |-> FALSE, reply_to |-> <<>>, observers |-> <<>>, guid |-> GuidOf(n),
     registered |-> FALSE, interest_w |-> FALSE, ctx |-> FALSE, state |-> FALSE,
     inbox |-> <<>>, rEdge |-> FALSE, wEdge |-> FALSE,
     port |-> 0, bound |-> 0]

\* ServiceDiscovery::start(core, event_loop, our_listeners, context, port) on
\* node n, whose record is s: busy are the ports bind fails on, bc, ser and
\* reg the results of set_broadcast, serialise and register.  The result is
\* the record after the call and what the call returned.
start(s, n, port, busy, bc, ser, reg) ==
    LET sock == get_socket(port, busy)
    IN  IF sock.kind # "Ok" THEN [s |-> s, res |-> "bind"]
        ELSE IF bc # "ok" THEN [s |-> s, res |-> "broadcast"]
        ELSE IF ser # "ok" THEN [s |-> s, res |-> "serialise"]
        ELSE IF reg # "ok" THEN [s |-> s, res |-> "register"]
        ELSE [s |-> StartedAt(n, port, sock.port), res |-> "ok"]

Init ==
    /\ sd = [n \in Nodes |-> IF n = "A" THEN Started(n) ELSE Absent(n)]
    /\ our_listeners = [n \in Nodes |-> << MappedAddr("a1", FALSE) >>]
    /\ rx_open = [o \in Observers |-> TRUE]
    /\ obs_used = {}
    /\ seeks = 0
    /\ OnlyDiscovery
    /\ accepted = NoneAccepted /\ unanswered = NoneUnanswered
    /\ fw = NotRunning /\ dup = NotRunning /\ fs = NotRunning
    /\ last = Quiet("start", "A", Started("A"))

----------------------------------------------------------------------------
\* Actions.

\* The instance is in Core's registry, so commands and events reach it.
Alive(n) == sd[n].ctx /\ sd[n].state

\* The events mio reports for the socket: the pending edges.
Pending(s) ==
    (IF s.rEdge THEN {"readable"} ELSE {}) \cup (IF s.wEdge THEN {"writable"} ELSE {})

\* What recv_from can return: with nothing to read Ok(None) (mio turns
\* WouldBlock into Ok(None)), with a datagram waiting Ok(Some), and in both
\* cases an error.
RecvResults(s) ==
    IF s.inbox = <<>> THEN {"none", "interrupted", "fatal"} ELSE {"ok", "interrupted", "fatal"}

\* The network hands datagram d to the socket of node to, if there is one: the
\* datagram is buffered and the edge-triggered readable event becomes pending.
Delivered(f, d, to) ==
    IF to \in Nodes /\ f[to].state
    THEN [f EXCEPT ![to].inbox = Append(@, d), ![to].rEdge = f[to].registered]
    ELSE f

\* The Responses a call sent (send_to returned Ok(Some)) reach their peers.
RECURSIVE DeliverAll(_, _, _)
DeliverAll(f, writes, from) ==
    IF writes = <<>> THEN f
    ELSE LET w == Head(writes)
             g == IF w.res = "ok" THEN Delivered(f, Response(w.payload, from), w.peer) ELSE f
         IN  DeliverAll(g, Tail(writes), from)

\* History for the properties: the source of datagram dg when it is a Request
\* with a foreign guid read by an instance s that listens.
AcceptedFrom(s, dg) ==
    IF dg.kind = "Request" /\ s.listen /\ dg.guid # s.guid THEN {dg.from} ELSE {}

\* History for the properties: the sources of the accepted Requests still
\* waiting for their Response, in the order the Requests were read.  A
\* Request just accepted joins at the end ..
Waiting(u, from) == IF from = {} THEN u ELSE Append(u, CHOOSE a \in from : TRUE)

\* .. and a send_to that took the Response (Ok(Some)) or failed for good (an
\* error other than Interrupted / WouldBlock) removes the oldest entry of the
\* peer it addressed.
RECURSIVE RemoveFirst(_, _)
RemoveFirst(u, peer) ==
    IF u = <<>> THEN u
    ELSE IF Head(u) = peer THEN Tail(u)
    ELSE <<Head(u)>> \o RemoveFirst(Tail(u), peer)

RECURSIVE AfterAnswers(_, _)
AfterAnswers(u, writes) ==
    IF writes = <<>> THEN u
    ELSE AfterAnswers(IF Head(writes).res \in {"ok", "fatal"}
                      THEN RemoveFirst(u, Head(writes).peer) ELSE u,
                      Tail(writes))

\* One ready(event_set) call on node n, with the given results of its I/O calls.
ReadyCall(n, es, rcv, snd1, rr1, snd2, rr2) ==
    LET s  == sd[n]
        s0 == [s EXCEPT !.rEdge = FALSE, !.wEdge = FALSE]
        r  == ready(Call(s0), es, rcv, our_listeners[n], rx_open, snd1, rr1, snd2, rr2)
        dg == IF "readable" \in es /\ rcv = "ok" /\ es \cap {"error", "hup"} = {}
              THEN Head(s.inbox) ELSE NoDgram
        rc == IF "readable" \in es /\ es \cap {"error", "hup"} = {} THEN rcv ELSE "-"
    IN  /\ sd' = DeliverAll([sd EXCEPT ![n] = r.call.s], r.call.writes, n)
        /\ last' = Trace("ready", n, es, rc, dg, Fields(s), r.mid, r.call)
        /\ accepted' = [accepted EXCEPT ![n] = @ \cup AcceptedFrom(s, dg)]
        /\ unanswered' = [unanswered EXCEPT
                            ![n] = AfterAnswers(Waiting(@, AcceptedFrom(s, dg)), r.call.writes)]
        /\ UNCHANGED <<our_listeners, rx_open, obs_used, seeks, scan, el, lk, boot, fw, dup, fs>>

\* The reactor dispatches the pending readable / writable events; the results
\* of recv_from, send_to and reregister are drawn from RC, SN and RR.
ReadyWith(n, RC, SN, RR) ==
    /\ Alive(n) /\ sd[n].registered
    /\ Pending(sd[n]) # {}
    /\ LET es == Pending(sd[n])
           R  == "readable" \in es
           W  == "writable" \in es
       IN  \E rcv \in (IF R THEN RecvResults(sd[n]) \cap RC ELSE {"none"}) :
              \* read calls write only for a Request it has received
              LET Q == R /\ rcv = "ok" /\ Head(sd[n].inbox).kind = "Request"
              IN  \E snd1 \in (IF Q THEN SN ELSE {"ok"}),
                     rr1 \in (IF Q THEN RR ELSE {"ok"}),
                     snd2 \in (IF W THEN SN ELSE {"ok"}),
                     rr2 \in (IF W THEN RR ELSE {"ok"}) :
                       ReadyCall(n, es, rcv, snd1, rr1, snd2, rr2)

\* A ready call with any result of its I/O calls.
Ready(n) == ReadyWith(n, {"ok", "none", "interrupted", "fatal"}, SendResults, ReregResults)

\* A ready call without fatal errors: a send may have to be retried.
ReadyRetry(n) == ReadyWith(n, {"ok", "none"}, SendResults \ {"fatal"}, {"ok"})

\* A ready call whose I/O calls all succeed.
ReadyOk(n) == ReadyWith(n, {"ok", "none"}, {"ok"}, {"ok"})

\* The socket reports an error or a hang-up, alone or with the pending events.
ReadyErrHup(n) ==
    /\ Alive(n) /\ sd[n].registered
    /\ \E x \in {"error", "hup"} :
          ReadyCall(n, Pending(sd[n]) \cup {x}, "none", "ok", "ok", "ok", "ok")

\* set_listen, run as a command on the reactor thread.
SetListen(n, listen) ==
    /\ Alive(n)
    /\ sd[n].listen # listen
    /\ sd' = [sd EXCEPT ![n].listen = listen]
    /\ last' = Idle(n, sd'[n])
    /\ UNCHANGED <<our_listeners, rx_open, obs_used, seeks, scan, el, lk, boot, accepted, unanswered, fw, dup, fs>>

\* register_observer with a Sender not yet handed over.
RegisterObserver(n, obs) ==
    /\ Alive(n)
    /\ obs \notin obs_used
    /\ sd' = [sd EXCEPT ![n].observers = Append(@, obs)]
    /\ obs_used' = obs_used \cup {obs}
    /\ last' = Idle(n, sd'[n])
    /\ UNCHANGED <<our_listeners, rx_open, seeks, scan, el, lk, boot, accepted, unanswered, fw, dup, fs>>

\* The receiving end of an observer's channel is dropped.
CloseObserver(obs) ==
    /\ rx_open[obs]
    /\ \E n \in Nodes : Alive(n)
    /\ rx_open' = [rx_open EXCEPT ![obs] = FALSE]
    /\ last' = Idle(last.n, sd[last.n])
    /\ UNCHANGED <<sd, our_listeners, obs_used, seeks, scan, el, lk, boot, accepted, unanswered, fw, dup, fs>>

\* The Listener thread replaces the shared list.
UpdateListeners(n, L) ==
    /\ Alive(n)
    /\ L # our_listeners[n]
    /\ our_listeners' = [our_listeners EXCEPT ![n] = L]
    /\ last' = Idle(n, sd[n])
    /\ UNCHANGED <<sd, rx_open, obs_used, seeks, scan, el, lk, boot, accepted, unanswered, fw, dup, fs>>

\* A datagram from a host outside the model reaches the socket of n, which
\* holds fewer than cap unread datagrams.
Arrive(n, d, cap) ==
    /\ Alive(n)
    /\ Len(sd[n].inbox) < cap
    /\ sd' = Delivered(sd, d, n)
    /\ last' = Idle(n, sd'[n])
    /\ UNCHANGED <<our_listeners, rx_open, obs_used, seeks, scan, el, lk, boot, accepted, unanswered, fw, dup, fs>>

\* The socket is reported readable although no datagram can be read (the
\* kernel dropped it after the wake-up): recv_from will return Ok(None).
SpuriousReadable(n) ==
    /\ Alive(n) /\ sd[n].registered
    /\ sd[n].inbox = <<>> /\ ~sd[n].rEdge
    /\ sd' = [sd EXCEPT ![n].rEdge = TRUE]
    /\ last' = Idle(n, sd'[n])
    /\ UNCHANGED <<our_listeners, rx_open, obs_used, seeks, scan, el, lk, boot, accepted, unanswered, fw, dup, fs>>

\* The socket becomes writable while writable interest is registered.
BecomeWritable(n) ==
    /\ Alive(n) /\ sd[n].registered
    /\ sd[n].interest_w /\ ~sd[n].wEdge
    /\ sd' = [sd EXCEPT ![n].wEdge = TRUE]
    /\ last' = Idle(n, sd'[n])
    /\ UNCHANGED <<our_listeners, rx_open, obs_used, seeks, scan, el, lk, boot, accepted, unanswered, fw, dup, fs>>

\* The broadcast address seek_peers sends to.
Broadcast == "255.255.255.255"

\* seek_peers: one send_to of the serialised Request { guid } to remote_addr,
\* which is 255.255.255.255 at the port passed to start.  res is the result of
\* send_to: Ok(Some) and Ok(None) return Ok(()), an Err is returned to the
\* caller.  sent lists the datagrams put on the wire.
seek_peers(s, n, res) ==
    [ok   |-> res \in {"ok", "none"},
     sent |-> IF res = "ok"
              THEN << [to |-> [ip |-> Broadcast, port |-> s.port],
                       dgram |-> Request(s.guid, n)] >>
              ELSE <<>>]

\* A seek_peers command on node n.  A Request that was sent reaches the
\* sockets bound to the port it is addressed to: those of the other instances
\* and, when loopback holds, the sender's own.
SeekPeers(n, max) ==
    /\ Alive(n)
    /\ seeks < max
    /\ seeks' = seeks + 1
    /\ \E res \in SendResults, loopback \in BOOLEAN :
          LET r    == seek_peers(sd[n], n, res)
              req  == Request(sd[n].guid, n)
              to   == IF r.sent # <<>>
                      THEN { m \in Nodes : /\ sd[m].bound = sd[n].port
                                           /\ m = n => loopback }
                      ELSE {}
              f    == [m \in Nodes |-> IF m \in to THEN Delivered(sd, req, m)[m] ELSE sd[m]]
          IN  /\ loopback => r.sent # <<>> /\ sd[n].bound = sd[n].port
              /\ sd' = f
              /\ last' = [Quiet("seek_peers", n, sd[n]) EXCEPT
                            !.seek = res,
                            !.sent = r.sent,
                            !.ret = IF r.ok THEN "Ok" ELSE "Err",
                            !.dgram = IF res = "ok" THEN req ELSE NoDgram]
    /\ UNCHANGED <<our_listeners, rx_open, obs_used, scan, el, lk, boot, accepted, unanswered, fw, dup, fs>>

\* A start command on node n, on which no instance is running.
Start(n, Ports) ==
    /\ ~sd[n].ctx /\ ~sd[n].state /\ ~sd[n].registered
    /\ \E port \in Ports, busy \in SUBSET Ports,
          bc \in {"ok", "err"}, ser \in {"ok", "err"}, reg \in {"ok", "err"} :
          LET r == start(sd[n], n, port, busy, bc, ser, reg)
          IN  /\ sd' = [sd EXCEPT ![n] = r.s]
              /\ last' = [Quiet("start", n, r.s) EXCEPT !.start = r.res]
              /\ accepted' = [accepted EXCEPT ![n] = IF r.res = "ok" THEN {} ELSE @]
              /\ unanswered' = [unanswered EXCEPT ![n] = IF r.res = "ok" THEN <<>> ELSE @]
    /\ UNCHANGED <<our_listeners, rx_open, obs_used, seeks, scan, el, lk, boot, fw, dup, fs>>

\* reply_to is kept within the bound by the environment: no further Request
\* arrives while the queue is full.
Room(n, d) == d.kind = "Request" => Len(sd[n].reply_to) < MaxQueue

----------------------------------------------------------------------------
\* Spec: an instance answering requests in an open network.  Requests arrive
\* from two peers and from the instance itself (its own broadcast),
\* undecodable datagrams arrive, a client registers an observer, the Listener
\* replaces the shared list, every I/O call may fail.
EnvDatagrams ==
    { Request("gA", "A"), Request("gB", "B"), Request("gC", "C"), Bogus("C") }

EnvLists ==
    { << MappedAddr("a1", FALSE) >>,
      << MappedAddr("a2", TRUE), MappedAddr("a3", FALSE), MappedAddr("a1", FALSE) >> }

Next ==
    \/ \E n \in Nodes : Ready(n)
    \/ \E n \in Nodes : ReadyErrHup(n)
    \/ \E n \in Nodes, b \in BOOLEAN : SetListen(n, b)
    \/ \E n \in Nodes : RegisterObserver(n, "o1")
    \/ \E n \in Nodes, L \in EnvLists : UpdateListeners(n, L)
    \/ \E n \in Nodes, d \in EnvDatagrams : Room(n, d) /\ Arrive(n, d, MaxInbox)
    \/ \E n \in Nodes : SpuriousReadable(n)
    \/ \E n \in Nodes : BecomeWritable(n)

Spec == Init /\ [][Next]_vars

----------------------------------------------------------------------------
\* SpecObs: an instance with up to three observers.  Responses with two
\* different lists, requests and undecodable datagrams arrive; receivers are
\* dropped at any time.  Senders are handed in in the order o1, o2, o3.
ObsDatagrams ==
    { Response(<<"a1">>, "B"), Response(<<"a3", "a1">>, "C"),
      Request("gB", "B"), Bogus("C") }

NextSender == IF "o1" \notin obs_used THEN "o1" ELSE IF "o2" \notin obs_used THEN "o2" ELSE "o3"

InitObs ==
    /\ \E l \in BOOLEAN :
          sd = [n \in Nodes |-> IF n = "A" THEN [Started(n) EXCEPT !.listen = l] ELSE Absent(n)]
    /\ our_listeners = [n \in Nodes |-> << MappedAddr("a1", FALSE) >>]
    /\ rx_open = [o \in Observers |-> TRUE]
    /\ obs_used = {}
    /\ seeks = 0
    /\ OnlyDiscovery
    /\ accepted = NoneAccepted /\ unanswered = NoneUnanswered
    /\ fw = NotRunning /\ dup = NotRunning /\ fs = NotRunning
    /\ last = Quiet("start", "A", sd["A"])

NextObs ==
    \/ \E n \in Nodes : Ready(n)
    \/ \E n \in Nodes : RegisterObserver(n, NextSender)
    \/ \E o \in Observers : CloseObserver(o)
    \/ \E n \in Nodes, d \in ObsDatagrams : Room(n, d) /\ Arrive(n, d, MaxInbox)
    \/ \E n \in Nodes : BecomeWritable(n)

SpecObs == InitObs /\ [][NextObs]_vars

----------------------------------------------------------------------------
\* SpecLive: a listening instance whose reactor is fair.  Datagrams arrive at
\* any time, also several before the readable event is handled; no I/O call
\* fails fatally, a send may have to be retried, the socket becomes writable
\* again and again, and a ready call whose I/O succeeds is eventually made
\* whenever events are pending again and again.
LiveDatagrams ==
    { Request("gB", "B"), Request("gC", "C"), Response(<<"a1">>, "B"), Bogus("C") }

InitLive ==
    /\ sd = [n \in Nodes |-> IF n = "A" THEN [Started(n) EXCEPT !.listen = TRUE] ELSE Absent(n)]
    /\ our_listeners = [n \in Nodes |-> << MappedAddr("a1", FALSE) >>]
    /\ rx_open = [o \in Observers |-> TRUE]
    /\ obs_used = {}
    /\ seeks = 0
    /\ OnlyDiscovery
    /\ accepted = NoneAccepted /\ unanswered = NoneUnanswered
    /\ fw = NotRunning /\ dup = NotRunning /\ fs = NotRunning
    /\ last = Quiet("start", "A", sd["A"])

NextLive ==
    \/ \E d \in LiveDatagrams : Room("A", d) /\ Arrive("A", d, MaxBacklog)
    \/ ReadyRetry("A")
    \/ ReadyOk("A")
    \/ BecomeWritable("A")

SpecLive ==
    /\ InitLive /\ [][NextLive]_vars
    /\ SF_vars(ReadyOk("A"))
    /\ WF_vars(BecomeWritable("A"))

----------------------------------------------------------------------------
\* SpecBeacon: the beacon round trip.  A listens and advertises a list L, B
\* has one observer registered and calls seek_peers; nobody else is on the
\* network, every datagram sent is delivered, no I/O call fails fatally and
\* both reactors are fair.
InitBeacon ==
    /\ sd = [n \in Nodes |-> IF n = "A" THEN [Started(n) EXCEPT !.listen = TRUE]
                             ELSE [Started(n) EXCEPT !.observers = <<"o1">>]]
    /\ \E L \in ListenerLists : our_listeners = [n \in Nodes |-> IF n = "A" THEN L ELSE <<>>]
    /\ rx_open = [o \in Observers |-> TRUE]
    /\ obs_used = {"o1"}
    /\ seeks = 0
    /\ OnlyDiscovery
    /\ accepted = NoneAccepted /\ unanswered = NoneUnanswered
    /\ fw = NotRunning /\ dup = NotRunning /\ fs = NotRunning
    /\ last = Quiet("start", "B", sd["B"])

NextBeacon ==
    \/ SeekPeers("B", MaxSeeks)
    \/ \E n \in Nodes : ReadyRetry(n)
    \/ \E n \in Nodes : ReadyOk(n)
    \/ \E n \in Nodes : BecomeWritable(n)

SpecBeacon ==
    /\ InitBeacon /\ [][NextBeacon]_vars
    /\ WF_vars(SeekPeers("B", MaxSeeks))
    /\ \A n \in Nodes : SF_vars(ReadyOk(n)) /\ WF_vars(BecomeWritable(n))

----------------------------------------------------------------------------
\* SpecScan: get_socket(p) alone, for every p among the highest ports; each
\* iteration of its loop is one step, and UdpSocket::v4() and bind return any
\* of their results.  The loop is not suspended: a step is taken whenever one
\* is possible.
ScanStep ==
    /\ scan.pc = "loop"
    /\ \E v4 \in SocketResults, bind \in BindResults :
          scan' = get_socket_step(scan, v4, bind)
    /\ UNCHANGED <<sd, our_listeners, rx_open, obs_used, seeks, last, el, lk, boot, accepted, unanswered, fw, dup, fs>>

InitScan ==
    /\ sd = [n \in Nodes |-> Absent(n)]
    /\ our_listeners = [n \in Nodes |-> <<>>]
    /\ rx_open = [o \in Observers |-> TRUE]
    /\ obs_used = {}
    /\ seeks = 0
    /\ last = Quiet("start", "A", Absent("A"))
    /\ \E p \in StartPorts : scan = scan_init(p)
    /\ el = NoLoop /\ lk = NoLock /\ boot = NoBoot
    /\ accepted = NoneAccepted /\ unanswered = NoneUnanswered
    /\ fw = NotRunning /\ dup = NotRunning /\ fs = NotRunning

NextScan == ScanStep

SpecScan == InitScan /\ [][NextScan]_vars /\ WF_vars(ScanStep)

----------------------------------------------------------------------------
\* compat::event_loop: spawn_event_loop, EventLoop::send, the drop of the
\* EventLoop.  el holds the position of the caller of spawn_event_loop (cpc)
\* and of the spawned thread (tpc), the result channel, the command channel
\* (queue, tx: its only Sender exists), the commands being executed (active)
\* and the begin / end events of the commands on the ServiceState (events).

\* The threads holding the &EventLoop and calling send.
Producers == {"P1", "P2"}

\* A ServiceCommand: the seq-th closure sent by producer p.
Cmd(p, seq) == [by |-> p, seq |-> seq]

Spawning ==
    [cpc |-> "call", tpc |-> "none", result_ch |-> <<>>, results_sent |-> 0,
     got |-> "-", tx |-> FALSE, queue |-> <<>>, active |-> {}, events |-> <<>>,
     sent |-> [p \in Producers |-> 0]]

\* thread::named(name, move || ..): the thread starts, the caller goes on to
\* result_rx.recv().
spawn(e) == [e EXCEPT !.cpc = "recv", !.tpc = "try"]

\* Mutation of the thread's start-up: an error of try() is not reported.
thread_startup_silent_err(e, core_new, with_config) ==
    IF core_new = "ok" /\ with_config = "ok"
    THEN [e EXCEPT !.tx = TRUE,
                   !.result_ch = Append(@, "Ok"),
                   !.results_sent = @ + 1,
                   !.tpc = "loop"]
    ELSE [e EXCEPT !.tpc = "exited"]

\* The spawned thread up to its command loop: try() (Core::new()?, then
\* core.run(Service::with_config(..))?), then either the command channel is
\* created and Ok(tx) sent on the result channel, or Err(e) is sent and the
\* thread ends.
thread_startup(e, core_new, with_config) ==
    IF core_new = "ok" /\ with_config = "ok"
    THEN [e EXCEPT !.tx = TRUE,
                   !.result_ch = Append(@, "Ok"),
                   !.results_sent = @ + 1,
                   !.tpc = "loop"]
    ELSE [e EXCEPT !.result_ch = Append(@, "Err"),
                   !.results_sent = @ + 1,
                   !.tpc = "exited"]

\* unwrap!(result_rx.recv())?: Ok(tx) makes the EventLoop, Err(e) is returned
\* after the joiner, a local, is dropped.
result_recv(e) ==
    LET r == Head(e.result_ch)
    IN  [e EXCEPT !.result_ch = Tail(@),
                  !.got = r,
                  !.cpc = IF r = "Ok" THEN "has_loop" ELSE "err_join"]

\* Mutation of unbounded_send: the command is put in front of the queue.
unbounded_send_front(q, msg) == <<msg>> \o q

\* tx.unbounded_send(msg)
unbounded_send(q, msg) == Append(q, msg)

\* Mutation of the command loop: the next command is taken while one runs.
stream_ready_while_running(e) == e.tpc \in {"loop", "running"} /\ e.queue # <<>>

\* rx.for_each(..): the next command is taken from the stream when the
\* closure has returned for the one before.
stream_ready(e) == e.tpc = "loop" /\ e.queue # <<>>

\* cb.call_box(&mut service_state) begins on the reactor thread ..
call_box_begin(e) ==
    LET cb == Head(e.queue)
    IN  [e EXCEPT !.queue = Tail(@),
                  !.active = @ \cup {cb},
                  !.events = Append(@, [ev |-> "begin", cmd |-> cb, thread |-> "reactor"]),
                  !.tpc = "running"]

\* .. and returns.
call_box_end(e, cb) ==
    [e EXCEPT !.active = @ \ {cb},
              !.events = Append(@, [ev |-> "end", cmd |-> cb, thread |-> "reactor"]),
              !.tpc = IF e.active = {cb} THEN "loop" ELSE "running"]

\* Mutation of the drop of EventLoop: the joiner is dropped first, the Sender
\* only after the join.
drop_tx_after_join(e) == [e EXCEPT !.cpc = "join"]

\* Drop of EventLoop { tx, _joiner }: the fields are dropped in the order of
\* their declaration, tx first (the channel is closed), then the joiner
\* (which joins the thread).
drop_event_loop(e) == [e EXCEPT !.tx = FALSE, !.cpc = "join"]

\* The steps of the model not in el.
ElFrame == UNCHANGED <<sd, our_listeners, rx_open, obs_used, seeks, last, scan, lk, boot, accepted, unanswered, fw, dup, fs>>

Spawn ==
    /\ el.cpc = "call"
    /\ el' = spawn(el)
    /\ ElFrame

ThreadStartup ==
    /\ el.tpc = "try"
    /\ \E core_new \in {"ok", "err"}, with_config \in {"ok", "err"} :
          el' = thread_startup(el, core_new, with_config)
    /\ ElFrame

ResultRecv ==
    /\ el.cpc = "recv"
    /\ el.result_ch # <<>>
    /\ el' = result_recv(el)
    /\ ElFrame

\* EventLoop::send by producer p, which holds a reference to the EventLoop.
Send(p) ==
    /\ el.cpc = "has_loop"
    /\ el.sent[p] < MaxCmds
    /\ el' = [el EXCEPT !.sent[p] = @ + 1,
                        !.queue = unbounded_send(@, Cmd(p, el.sent[p] + 1))]
    /\ ElFrame

CallBoxBegin ==
    /\ stream_ready(el)
    /\ el' = call_box_begin(el)
    /\ ElFrame

CallBoxEnd ==
    /\ el.tpc = "running"
    /\ \E cb \in el.active : el' = call_box_end(el, cb)
    /\ ElFrame

\* The stream ends when it is empty and its Sender is gone: for_each
\* completes, core.run returns and the thread ends.
ThreadExit ==
    /\ el.tpc = "loop"
    /\ el.queue = <<>> /\ ~el.tx
    /\ el' = [el EXCEPT !.tpc = "exited"]
    /\ ElFrame

DropEventLoop ==
    /\ el.cpc = "has_loop"
    /\ el' = drop_event_loop(el)
    /\ ElFrame

\* Joiner::drop: the join returns when the thread has ended; then the Sender
\* is dropped if it still exists.
Join ==
    /\ el.cpc \in {"join", "err_join"}
    /\ el.tpc = "exited"
    /\ el' = [el EXCEPT !.cpc = IF el.cpc = "join" THEN "dropped" ELSE "failed",
                        !.tx = FALSE]
    /\ ElFrame

\* SpecLoop: one spawn_event_loop call, two producer threads sending up to
\* MaxCmds commands each through the handle, then the drop of the handle.
\* Both threads are scheduled fairly; the owner need not ever drop the handle.
InitLoop ==
    /\ sd = [n \in Nodes |-> Absent(n)]
    /\ our_listeners = [n \in Nodes |-> <<>>]
    /\ rx_open = [o \in Observers |-> TRUE]
    /\ obs_used = {}
    /\ seeks = 0
    /\ last = Quiet("idle", "A", Absent("A"))
    /\ el = Spawning
    /\ scan = NoScan /\ lk = NoLock /\ boot = NoBoot
    /\ accepted = NoneAccepted /\ unanswered = NoneUnanswered
    /\ fw = NotRunning /\ dup = NotRunning /\ fs = NotRunning

NextLoop ==
    \/ Spawn
    \/ ThreadStartup
    \/ ResultRecv
    \/ \E p \in Producers : Send(p)
    \/ CallBoxBegin
    \/ CallBoxEnd
    \/ ThreadExit
    \/ DropEventLoop
    \/ Join

SpecLoop ==
    /\ InitLoop /\ [][NextLoop]_vars
    /\ WF_vars(Spawn) /\ WF_vars(ThreadStartup) /\ WF_vars(ResultRecv)
    /\ WF_vars(CallBoxBegin) /\ WF_vars(CallBoxEnd) /\ WF_vars(ThreadExit)
    /\ WF_vars(Join)

----------------------------------------------------------------------------
\* The mutex of our_listeners.  lk holds the Vec inside the mutex (list), the
\* thread holding the lock (holder), the position of the discovery thread
\* inside the first statement of write_impl (rd: the iterator and the Vec being
\* collected) and of the Listener thread inside its critical section (wr).
\* For the properties it records the list as it was when the lock was taken
\* (snap), as it was when the Request waiting for a Response arrived
\* (at_request), and the last Response built (built).
NoResponse == [built |-> FALSE, payload |-> <<>>, snap |-> <<>>, at_request |-> <<>>]

Unlocked(L) ==
    [pc |-> "on", holder |-> "none", list |-> L,
     rd |-> [pc |-> "idle", idx |-> 0, out |-> <<>>],
     wr |-> [pc |-> "idle", clear |-> FALSE, todo |-> <<>>],
     pending |-> FALSE, snap |-> <<>>, at_request |-> <<>>, built |-> NoResponse]

\* Mutation of the lock: it is taken whether or not another thread holds it.
can_lock_unchecked(l) == l.holder \in {"none", "discovery", "listener"}

\* Mutex::lock() returns when no thread holds the lock.
can_lock(l) == l.holder = "none"

\* self.our_listeners.lock().unwrap().iter(): the guard lives until the end of
\* the statement.
reader_lock(l) ==
    [l EXCEPT !.holder = "discovery", !.snap = l.list,
              !.rd = [pc |-> "iter", idx |-> 1, out |-> <<>>]]

\* One element through .filter(|elt| !elt.nat_restricted).map(|elt| elt.addr).
reader_next(l) ==
    LET elt == l.list[l.rd.idx]
    IN  [l EXCEPT !.rd.idx = @ + 1,
                  !.rd.out = IF ~elt.nat_restricted THEN Append(@, elt.addr) ELSE @]

\* .collect() is complete: the statement ends, the guard is dropped, and the
\* Response is built from the collected Vec.
reader_collect(l) ==
    [l EXCEPT !.holder = IF @ = "discovery" THEN "none" ELSE @,
              !.rd = [pc |-> "idle", idx |-> 0, out |-> <<>>],
              !.pending = FALSE,
              !.built = [built |-> TRUE, payload |-> l.rd.out, snap |-> l.snap,
                         at_request |-> l.at_request]]

\* The Listener thread takes the lock to replace the list by L (clear, then
\* push) or to extend it by L (push).
writer_lock(l, L, replace) ==
    [l EXCEPT !.holder = "listener",
              !.wr = [pc |-> "locked", clear |-> replace, todo |-> L]]

\* One Vec operation of the Listener inside its critical section; when
\* nothing is left to do the guard is dropped.
writer_next(l) ==
    IF l.wr.clear THEN [l EXCEPT !.list = <<>>, !.wr.clear = FALSE]
    ELSE IF l.wr.todo # <<>>
    THEN [l EXCEPT !.list = Append(@, Head(l.wr.todo)), !.wr.todo = Tail(@)]
    ELSE [l EXCEPT !.holder = IF @ = "listener" THEN "none" ELSE @,
                   !.wr = [pc |-> "idle", clear |-> FALSE, todo |-> <<>>]]

LkFrame == UNCHANGED <<sd, our_listeners, rx_open, obs_used, seeks, last, scan, el, boot, accepted, unanswered, fw, dup, fs>>

\* A Request is accepted: its peer waits in reply_to for a Response.
RequestAccepted ==
    /\ ~lk.pending
    /\ lk' = [lk EXCEPT !.pending = TRUE, !.at_request = lk.list]
    /\ LkFrame

ReaderLock ==
    /\ lk.pending /\ lk.rd.pc = "idle"
    /\ can_lock(lk)
    /\ lk' = reader_lock(lk)
    /\ LkFrame

ReaderNext ==
    /\ lk.rd.pc = "iter"
    /\ lk.rd.idx <= Len(lk.list)
    /\ lk' = reader_next(lk)
    /\ LkFrame

ReaderCollect ==
    /\ lk.rd.pc = "iter"
    /\ lk.rd.idx > Len(lk.list)
    /\ lk' = reader_collect(lk)
    /\ LkFrame

\* What the Listener writes: whole lists and single new mappings.
NewLists == EnvLists
NewMappings == { << MappedAddr("a4", FALSE) >>, << MappedAddr("a5", TRUE) >> }

WriterLock ==
    /\ lk.wr.pc = "idle"
    /\ can_lock(lk)
    /\ \/ \E L \in NewLists : L # lk.list /\ lk' = writer_lock(lk, L, TRUE)
       \/ \E L \in NewMappings :
             /\ Len(lk.list) < MaxList
             /\ \A i \in 1..Len(lk.list) : lk.list[i] # L[1]
             /\ lk' = writer_lock(lk, L, FALSE)
    /\ LkFrame

WriterNext ==
    /\ lk.wr.pc = "locked"
    /\ lk' = writer_next(lk)
    /\ LkFrame

\* SpecMutex: the discovery thread builds Responses while the Listener thread
\* replaces and extends the list.
InitMutex ==
    /\ sd = [n \in Nodes |-> Absent(n)]
    /\ our_listeners = [n \in Nodes |-> <<>>]
    /\ rx_open = [o \in Observers |-> TRUE]
    /\ obs_used = {}
    /\ seeks = 0
    /\ last = Quiet("idle", "A", Absent("A"))
    /\ lk = Unlocked(<< MappedAddr("a1", FALSE) >>)
    /\ scan = NoScan /\ el = NoLoop /\ boot = NoBoot
    /\ accepted = NoneAccepted /\ unanswered = NoneUnanswered
    /\ fw = NotRunning /\ dup = NotRunning /\ fs = NotRunning

NextMutex ==
    \/ RequestAccepted
    \/ ReaderLock
    \/ ReaderNext
    \/ ReaderCollect
    \/ WriterLock
    \/ WriterNext

SpecMutex == InitMutex /\ [][NextMutex]_vars

----------------------------------------------------------------------------
\* Outgoing bootstrap (net::peer::bootstrap, re-exported by src/src/net/mod.rs;
\* modelled from sections 3, 4.D.2 and 5 of the specification).  The
\* candidates are tried in parallel; the first handshake that succeeds wins
\* and marks the attempt finished, the remaining sockets are closed on the
\* next tick of the reactor.  boot holds the state of the attempt (pc), of
\* each candidate (st), whether service-discovery results may still arrive
\* (disc), the candidates that can be reached (reach), the events emitted
\* and whether the attempt was cancelled by a shutdown.
Candidates == {"c1", "c2", "c3"}

BootstrapConnect(uid) == [ev |-> "BootstrapConnect", uid |-> uid, kind |-> "Bootstrap"]
BootstrapFailed == [ev |-> "BootstrapFailed", uid |-> "-", kind |-> "-"]

\* bootstrap() with the contacts C (hard-coded and cached), of which those in
\* R can be reached, with or without a service-discovery observer.
bootstrap(C, R, disc) ==
    [pc |-> "running",
     st |-> [c \in Candidates |-> IF c \in C THEN "inflight" ELSE "unused"],
     contacts |-> C, reach |-> R, disc |-> disc, disc0 |-> disc,
     events |-> <<>>, cancelled |-> FALSE]

InFlight(b) == { c \in Candidates : b.st[c] = "inflight" }

\* Mutation of the handshake's completion: it does not look whether the
\* attempt is already finished.
handshake_ok_unchecked(b, c) ==
    [b EXCEPT !.st[c] = "won",
              !.events = Append(@, BootstrapConnect(c)),
              !.pc = "finished"]

\* The handshake with candidate c succeeded: the first one wins and emits
\* BootstrapConnect; one that completes after the attempt is finished is
\* closed.
handshake_ok(b, c) ==
    IF b.pc = "running"
    THEN [b EXCEPT !.st[c] = "won",
                   !.events = Append(@, BootstrapConnect(c)),
                   !.pc = "finished"]
    ELSE [b EXCEPT !.st[c] = "closed"]

\* The connection to candidate c failed or its per-candidate timeout expired.
handshake_failed(b, c) == [b EXCEPT !.st[c] = "failed"]

\* No attempt is left and none can arrive, or the overall timeout expired.
all_failed(b) ==
    [b EXCEPT !.events = Append(@, BootstrapFailed), !.pc = "finished", !.disc = FALSE]

\* stop_bootstrap or the shutdown of the Service: the attempt is marked
\* finished without an event.
cancel(b) == [b EXCEPT !.pc = "finished", !.cancelled = TRUE, !.disc = FALSE]

BootFrame == UNCHANGED <<sd, our_listeners, rx_open, obs_used, seeks, last, scan, el, lk, accepted, unanswered, fw, dup, fs>>

HandshakeOk(c) ==
    /\ boot.st[c] = "inflight" /\ c \in boot.reach
    /\ boot' = handshake_ok(boot, c)
    /\ BootFrame

HandshakeFailed(c) ==
    /\ boot.st[c] = "inflight"
    /\ boot' = handshake_failed(boot, c)
    /\ BootFrame

\* A service-discovery result arrives and is appended to the candidates.
Discovered(c) ==
    /\ boot.pc = "running" /\ boot.disc
    /\ boot.st[c] = "unused"
    /\ boot' = [boot EXCEPT !.st[c] = "inflight"]
    /\ BootFrame

AllFailed ==
    /\ boot.pc = "running"
    /\ InFlight(boot) = {} /\ ~boot.disc
    /\ boot' = all_failed(boot)
    /\ BootFrame

Timeout ==
    /\ boot.pc = "running"
    /\ boot' = all_failed(boot)
    /\ BootFrame

Shutdown ==
    /\ boot.pc = "running"
    /\ boot' = cancel(boot)
    /\ BootFrame

\* Next tick of the reactor after the attempt finished: a socket still in
\* flight is deregistered and closed.
Reap(c) ==
    /\ boot.pc = "finished"
    /\ boot.st[c] = "inflight"
    /\ boot' = [boot EXCEPT !.st[c] = "closed"]
    /\ BootFrame

\* SpecBoot: one bootstrap attempt, for every set of contacts, every set of
\* reachable candidates, with and without service discovery.  The overall
\* timeout fires if the attempt is still running.
InitBoot ==
    /\ sd = [n \in Nodes |-> Absent(n)]
    /\ our_listeners = [n \in Nodes |-> <<>>]
    /\ rx_open = [o \in Observers |-> TRUE]
    /\ obs_used = {}
    /\ seeks = 0
    /\ last = Quiet("idle", "A", Absent("A"))
    /\ \E C \in SUBSET Candidates, R \in SUBSET Candidates, disc \in BOOLEAN :
          boot = bootstrap(C, R, disc)
    /\ scan = NoScan /\ el = NoLoop /\ lk = NoLock
    /\ accepted = NoneAccepted /\ unanswered = NoneUnanswered
    /\ fw = NotRunning /\ dup = NotRunning /\ fs = NotRunning

NextBoot ==
    \/ \E c \in Candidates : HandshakeOk(c)
    \/ \E c \in Candidates : HandshakeFailed(c)
    \/ \E c \in Candidates : Discovered(c)
    \/ AllFailed
    \/ Timeout
    \/ Shutdown
    \/ \E c \in Candidates : Reap(c)

SpecBoot == InitBoot /\ [][NextBoot]_vars /\ WF_vars(Timeout)

----------------------------------------------------------------------------
\* SpecReg: the life of one instance in Core's registry.  start is called
\* with one of the two highest ports, any of which may be taken, and any of
\* its calls may fail; the started instance answers requests, seeks peers,
\* meets I/O errors and hang-ups, terminates, and is started again.
RegPorts == {u16_MAX - 1, u16_MAX}

RegDatagrams == { Request("gB", "B"), Response(<<"a1">>, "B") }

InitReg ==
    /\ sd = [n \in Nodes |-> Absent(n)]
    /\ our_listeners = [n \in Nodes |-> << MappedAddr("a1", FALSE) >>]
    /\ rx_open = [o \in Observers |-> TRUE]
    /\ obs_used = {}
    /\ seeks = 0
    /\ last = Quiet("idle", "A", Absent("A"))
    /\ OnlyDiscovery
    /\ accepted = NoneAccepted /\ unanswered = NoneUnanswered
    /\ fw = NotRunning /\ dup = NotRunning /\ fs = NotRunning

NextReg ==
    \/ Start("A", RegPorts)
    \/ Ready("A")
    \/ ReadyErrHup("A")
    \/ \E b \in BOOLEAN : SetListen("A", b)
    \/ SeekPeers("A", MaxSeeks)
    \/ \E d \in RegDatagrams : Room("A", d) /\ Arrive("A", d, MaxInbox)
    \/ BecomeWritable("A")

SpecReg == InitReg /\ [][NextReg]_vars

----------------------------------------------------------------------------
\* Properties.  They read the trace of the most recent call: last.pre is the
\* instance when ready was entered, last.mid the instance after the read part
\* of the call, sd[last.n] the instance when the call returned, last.writes
\* the write_impl runs of the call in order.

IsReady == last.op = "ready"
Me == sd[last.n]
Range(q) == { q[i] : i \in 1..Len(q) }
WroteOnEvent == IF "writable" \in last.es THEN 1 ELSE 0
\* The write_impl runs made from read (at most one, the first).
WritesFromRead == Len(last.writes) - WroteOnEvent
\* The instance right after the i-th write of the call.
AfterWrite(i) ==
    IF "writable" \in last.es /\ i = Len(last.writes) THEN Fields(Me) ELSE last.mid
Gone(f) == ~f.registered /\ ~f.ctx /\ ~f.state
Kept(f) == f.registered /\ f.ctx /\ f.state

\* C1: every Response handed to send_to lists only addresses of entries of
\* our_listeners (as the call read it) with nat_restricted = false, and no
\* address of a restricted entry.
C1_ResponsesOnlyUnrestricted ==
    IsReady =>
        \A i \in 1..Len(last.writes) :
            LET w == last.writes[i]
                L == our_listeners[last.n]
            IN  w.res # "nopeer" =>
                    \A j \in 1..Len(w.payload) :
                        /\ \E e \in Range(L) : e.addr = w.payload[j] /\ ~e.nat_restricted
                        /\ ~\E e \in Range(L) : e.addr = w.payload[j] /\ e.nat_restricted

\* C1 witness: a Response was sent while the list held a restricted entry.
C1_Witness ==
    /\ IsReady
    /\ \E i \in 1..Len(last.writes) : last.writes[i].res = "ok" /\ last.writes[i].payload # <<>>
    /\ \E e \in Range(our_listeners[last.n]) : e.nat_restricted

\* C3: a Request with our own guid changes nothing in read: listen, reply_to,
\* observers and the registration are as before, read runs no write and no
\* observer is notified.
C3_LoopbackIgnored ==
    (IsReady /\ last.dgram.kind = "Request" /\ last.dgram.guid = last.pre.guid) =>
        /\ last.mid = last.pre
        /\ WritesFromRead = 0
        /\ last.notified = <<>>

\* C3 witness: our own Request was read while listening, with a reply pending
\* and an observer registered.
C3_Witness ==
    /\ IsReady /\ last.dgram.kind = "Request" /\ last.dgram.guid = last.pre.guid
    /\ last.pre.listen
    /\ last.pre.reply_to # <<>>
    /\ last.pre.observers # <<>>

\* C4 (as claimed): whenever a Response is sent, listen is true.
C4_ResponseOnlyWhileListening ==
    IsReady => \A i \in 1..Len(last.writes) : last.writes[i].res = "ok" => Me.listen

\* C6 (as claimed): after a send that returned Ok(None), Interrupted or
\* WouldBlock the queue is as before the attempt, the state is not terminated
\* and writable interest is registered.
C6_TransientRequeuedNeverTerminates ==
    IsReady =>
        \A i \in 1..Len(last.writes) :
            LET w == last.writes[i]
            IN  w.res \in TransientSend =>
                    /\ w.after = w.before
                    /\ Kept(AfterWrite(i))
                    /\ AfterWrite(i).interest_w

\* C6 (amended): after such a send the queue is as before the attempt and
\* reregister is called with writable interest; when that call succeeds the
\* state is not terminated and writable interest is registered.
C6_TransientRequeued ==
    IsReady =>
        \A i \in 1..Len(last.writes) :
            LET w == last.writes[i]
            IN  w.res \in TransientSend =>
                    /\ w.after = w.before
                    /\ Head(w.after) = w.peer
                    /\ w.event_set = "readable|writable"
                    /\ w.rereg = "ok" =>
                          /\ Kept(AfterWrite(i))
                          /\ AfterWrite(i).interest_w
                          /\ AfterWrite(i).reply_to = w.before

\* C6 witness: a send to the first of two queued peers had to be retried and
\* the re-registration succeeded.
C6_Witness ==
    /\ IsReady
    /\ \E i \in 1..Len(last.writes) :
          /\ last.writes[i].res \in TransientSend
          /\ Len(last.writes[i].before) = 2
          /\ last.writes[i].before[1] # last.writes[i].before[2]
          /\ last.writes[i].rereg = "ok"

\* A ready call met a condition that ends the state: an error or hup event, a
\* receive error other than Interrupted / WouldBlock, a send error other than
\* those, or a failed re-registration.
FatalInCall ==
    \/ last.es \cap {"error", "hup"} # {}
    \/ last.rcv = "fatal"
    \/ \E i \in 1..Len(last.writes) :
          last.writes[i].res = "fatal" \/ last.writes[i].rereg = "err"

C8_BogusIgnored ==
    (IsReady /\ last.dgram.kind = "Bogus") =>
        /\ last.mid = last.pre
        /\ Kept(last.mid)
        /\ WritesFromRead = 0
        /\ last.notified = <<>>

\* C8 witness: an undecodable datagram was read while listening with a reply
\* pending and an observer registered.
C8_Witness ==
    /\ IsReady /\ last.dgram.kind = "Bogus"
    /\ last.pre.listen
    /\ last.pre.reply_to # <<>>
    /\ last.pre.observers # <<>>

\* C10 (as claimed): one ready call invokes terminate at most once.
C10_TerminateAtMostOnce == last.terms <= 1

\* Position of x in the sequence q (0 if absent).
Pos(q, x) == IF x \in Range(q) THEN CHOOSE i \in 1..Len(q) : q[i] = x ELSE 0

\* After a ready call that read a Response, every observer registered before
\* the call whose channel is open got the Response's list exactly once and is
\* still registered, in the same relative order, and the others are removed;
\* a call that read anything else notified nobody and kept the observers.
C9_FanOut ==
    IsReady =>
        IF last.dgram.kind = "Response"
        THEN /\ \A o \in Observers :
                    Cardinality({ i \in 1..Len(last.notified) : last.notified[i].obs = o })
                        = IF o \in Range(last.pre.observers) /\ rx_open[o] THEN 1 ELSE 0
             /\ \A i \in 1..Len(last.notified) : last.notified[i].list = last.dgram.payload
             /\ Range(last.mid.observers) = { o \in Range(last.pre.observers) : rx_open[o] }
             /\ Len(last.mid.observers) = Cardinality(Range(last.mid.observers))
             /\ \A i, j \in 1..Len(last.mid.observers) :
                    i < j => Pos(last.pre.observers, last.mid.observers[i])
                                < Pos(last.pre.observers, last.mid.observers[j])
             /\ Me.observers = last.mid.observers
        ELSE /\ last.notified = <<>>
             /\ last.mid.observers = last.pre.observers

\* An observer that was registered and is no longer in the list is not put
\* back into it and is not sent to.
C9_RemovedForGood ==
    \A n \in Nodes : \A o \in obs_used :
        (\A m \in Nodes : o \notin Range(sd[m].observers)) =>
            /\ o \notin Range(sd'[n].observers)
            /\ \A i \in 1..Len(last'.notified) : last'.notified[i].obs # o

\* C9: observer fan-out: each open observer receives each Response read
\* exactly once and stays registered in order, an observer whose send fails
\* is removed and never sent to again, and Requests and undecodable datagrams
\* notify nobody.
C9_ObserverFanOut == []C9_FanOut /\ [][C9_RemovedForGood]_vars

\* C9 witness: a Response was read with three observers registered, the
\* second one closed: the first and the third were notified and remain.
C9_Witness ==
    /\ IsReady /\ last.dgram.kind = "Response"
    /\ Len(last.pre.observers) = 3
    /\ ~rx_open[last.pre.observers[2]]
    /\ Len(last.notified) = 2
    /\ Me.observers = << last.pre.observers[1], last.pre.observers[3] >>

\* A Response to peer p left the socket in the most recent call.
Answered(p) ==
    IsReady /\ \E i \in 1..Len(last.writes) :
        last.writes[i].res = "ok" /\ last.writes[i].peer = p

\* A Request of peer p with a foreign guid is in the socket of instance n.
RequestWaiting(n, p) ==
    \E i \in 1..Len(sd[n].inbox) :
        /\ sd[n].inbox[i].kind = "Request"
        /\ sd[n].inbox[i].from = p
        /\ sd[n].inbox[i].guid # sd[n].guid

\* C5 (as claimed): every Request with a foreign guid that reaches the socket
\* of the listening instance is eventually answered with a Response to its
\* sender.
C5_EveryRequestAnswered ==
    \A p \in {"B", "C"} : (sd["A"].listen /\ RequestWaiting("A", p)) ~> Answered(p)

\* C2 (as claimed): once B's Request is on the network, B's observer
\* eventually receives the unrestricted addresses of A's list, in order.
C2_BeaconRoundTrip ==
    (last.op = "seek_peers" /\ last.seek = "ok")
        ~> (/\ IsReady /\ last.n = "B"
            /\ last.notified =
                  << [obs |-> "o1", list |-> our_current_listeners(our_listeners["A"])] >>)

----------------------------------------------------------------------------
\* Registry and port scan.

\* C11: an instance is in Core's registry with both entries or with none,
\* and its socket is registered only while both exist; a call that ran
\* terminate leaves the socket deregistered and both entries removed; a
\* start that returned an error has inserted no entry and registered nothing.
C11_RegistryConsistent ==
    /\ \A n \in Nodes :
          /\ sd[n].ctx <=> sd[n].state
          /\ sd[n].registered => sd[n].ctx /\ sd[n].state
    /\ (IsReady /\ last.terms >= 1) => Gone(Me)
    /\ (last.op = "start" /\ last.start \notin {"ok", "-"}) => Gone(Me)
    /\ (last.op = "start" /\ last.start = "ok") => Kept(Me)

\* C11 witness: an instance was started, terminated by an error in a call
\* that ran terminate, and the next start failed at register.
C11_Witness ==
    /\ last.op = "start" /\ last.start = "register"
    /\ Me.bound # 0
    /\ Gone(Me)

TriedPort(i) == scan.tried[i].port
BindFailed(i) == scan.tried[i].res # "ok"

\* The safety part of C12.
C12_Scan ==
    /\ scan.p <= scan.port /\ scan.port <= u16_MAX
    /\ \A i \in 1..Len(scan.tried) : TriedPort(i) = scan.p + i - 1
    /\ \A i \in 1..(Len(scan.tried) - 1) : BindFailed(i)
    /\ (scan.pc = "done" /\ scan.res.kind = "Ok") =>
            /\ scan.tried # <<>>
            /\ ~BindFailed(Len(scan.tried))
            /\ scan.res.port = TriedPort(Len(scan.tried))
    /\ (scan.pc = "done" /\ scan.tried # <<>> /\ BindFailed(Len(scan.tried))
                          /\ scan.res.err # "socket") =>
            /\ TriedPort(Len(scan.tried)) = u16_MAX
            /\ scan.res = [kind |-> "Err", port |-> u16_MAX,
                           err |-> scan.tried[Len(scan.tried)].res]
    /\ (scan.pc = "done" /\ scan.res.kind = "Err" /\ scan.res.err # "socket") =>
            /\ Len(scan.tried) = u16_MAX - scan.p + 1
            /\ BindFailed(Len(scan.tried))

\* C12: get_socket(p) binds p, p+1, ... in increasing order; it returns the
\* socket of the first bind that succeeds, or, when the bind on every port up
\* to 65535 failed, the error of the last bind; the port counter stays in
\* [p, 65535] and the loop ends.
C12_PortScan == []C12_Scan /\ <>(scan.pc = "done")

\* C12 witness: started on the lowest port of the range, bind failed on every
\* port up to 65535 and the last error was returned.
C12_Witness ==
    /\ scan.pc = "done"
    /\ scan.res.kind = "Err" /\ scan.res.err = "eacces"
    /\ scan.p < u16_MAX - 1
    /\ Len(scan.tried) = u16_MAX - scan.p + 1

\* C13: a seek_peers call that returned Ok has sent exactly one datagram, the
\* Request with the instance's own guid, to 255.255.255.255 at the port given
\* to start, and has left listen, reply_to, observers, guid and the
\* registration as they were.
C13_SeekPeersSendsOneRequest ==
    (last.op = "seek_peers" /\ last.ret = "Ok") =>
        /\ Len(last.sent) = 1
        /\ last.sent[1].dgram = Request(Me.guid, last.n)
        /\ last.sent[1].to = [ip |-> Broadcast, port |-> Me.port]
        /\ Fields(Me) = last.pre

\* C14: every datagram write_impl handed to send_to is a Response addressed
\* to one peer, the source address of a Request this instance accepted
\* (read while listen was true, with a guid other than its own); none goes
\* to the broadcast address.
C14_ResponsesPointToPoint ==
    IsReady =>
        \A i \in 1..Len(last.writes) :
            last.writes[i].res # "nopeer" =>
                /\ last.writes[i].peer \in accepted[last.n]
                /\ last.writes[i].peer # Broadcast

\* C14 witness: a Response went to C, the only source of an accepted Request
\* so far.
C14_Witness ==
    /\ IsReady /\ last.n = "A"
    /\ \E i \in 1..Len(last.writes) : last.writes[i].res = "ok" /\ last.writes[i].peer = "C"
    /\ accepted["A"] = {"C"}

----------------------------------------------------------------------------
\* The command loop.

\* The commands sent so far.
SentCmds == { Cmd(p, i) : p \in Producers, i \in 1..MaxCmds } \cap
            UNION { { Cmd(p, i) : i \in 1..el.sent[p] } : p \in Producers }
Ended(cb) == \E i \in 1..Len(el.events) : el.events[i] = [ev |-> "end", cmd |-> cb, thread |-> "reactor"]

\* C15: of two commands of the same producer, the one sent first begins and
\* ends first on the reactor thread.
C15_SingleProducerOrder ==
    \A i, j \in 1..Len(el.events) :
        (/\ i < j
         /\ el.events[i].ev = el.events[j].ev
         /\ el.events[i].cmd.by = el.events[j].cmd.by)
        => el.events[i].cmd.seq < el.events[j].cmd.seq

\* C15 witness: both commands of P1 have been executed, with a command of P2
\* sent between them.
C15_Witness ==
    /\ Ended(Cmd("P1", 1)) /\ Ended(Cmd("P1", 2))
    /\ \E i \in 1..Len(el.events) :
          /\ el.events[i] = [ev |-> "begin", cmd |-> Cmd("P2", 1), thread |-> "reactor"]
          /\ \E h, j \in 1..Len(el.events) :
                /\ h < i /\ i < j
                /\ el.events[h].cmd = Cmd("P1", 1)
                /\ el.events[j].cmd = Cmd("P1", 2)

\* C16: at most one command is being executed; each command that begins ends
\* before the next begins, whatever the producers send meanwhile; commands
\* are executed by the reactor thread only, and only commands that were sent.
C16_CommandsNeverInterleave ==
    /\ Cardinality(el.active) <= 1
    /\ \A i \in 1..Len(el.events) :
          /\ el.events[i].thread = "reactor"
          /\ el.events[i].cmd \in SentCmds
          /\ el.events[i].ev = (IF i % 2 = 1 THEN "begin" ELSE "end")
          /\ (i % 2 = 0) => el.events[i].cmd = el.events[i - 1].cmd
    /\ el.active = (IF Len(el.events) % 2 = 1
                    THEN {el.events[Len(el.events)].cmd} ELSE {})

\* C16 witness: a command of P1 is running while both producers have sent
\* and two more commands wait in the channel.
C16_Witness ==
    /\ el.active = {Cmd("P1", 1)}
    /\ Len(el.queue) >= 2
    /\ el.sent["P1"] >= 1 /\ el.sent["P2"] >= 1

\* The EventLoop was dropped and the join has returned.
Dropped == el.cpc = "dropped"

\* C17: once the drop of the EventLoop has begun it completes; when the join
\* has returned the thread has ended, the channel is empty and every command
\* that was sent has been executed.
C17_DropJoins ==
    /\ [](Dropped => /\ el.tpc = "exited"
                      /\ el.queue = <<>> /\ el.active = {}
                      /\ \A cb \in SentCmds : Ended(cb))
    /\ (el.cpc = "join" ~> Dropped)

\* C17 witness: the Sender was dropped while one command was running and two
\* were queued, and the join has not returned yet.
C17_Witness ==
    /\ el.cpc = "join"
    /\ Len(el.queue) >= 2
    /\ el.tpc = "running"

\* The safety part of C18.
C18_OneResult ==
    /\ el.results_sent <= 1
    /\ el.tpc \in {"loop", "running", "exited"} => el.results_sent = 1
    /\ el.cpc = "has_loop" => el.got = "Ok" /\ el.tx /\ el.tpc \in {"loop", "running"}
    /\ el.got = "Ok" => el.cpc \in {"has_loop", "join", "dropped"}
    /\ el.got = "Err" =>
            /\ el.cpc \in {"err_join", "failed"}
            /\ ~el.tx /\ el.tpc = "exited"
            /\ el.events = <<>> /\ el.queue = <<>> /\ SentCmds = {}

\* C18: the spawned thread sends one result, Ok(tx) before it enters the
\* command loop or Err(e) before it ends without running a command; the
\* caller gets the EventLoop in the first case and the error in the second,
\* and its wait for the result ends.
C18_StartupReportedOnce ==
    /\ []C18_OneResult
    /\ (el.cpc = "recv" ~> el.cpc # "recv")

\* C18 witness: creating the Service failed and spawn_event_loop returned the
\* error.
C18_Witness ==
    /\ el.cpc = "failed"
    /\ el.got = "Err"

----------------------------------------------------------------------------
\* The shared listener list.

\* C19: the two threads are never inside their critical sections together,
\* the list does not change while the discovery thread iterates over it, and
\* every Response built lists the non-restricted addresses of the list as it
\* was at the one instant the lock was taken.
C19_ResponseFromOneVersion ==
    /\ ~(lk.rd.pc = "iter" /\ lk.wr.pc = "locked")
    /\ lk.rd.pc = "iter" => lk.list = lk.snap
    /\ lk.built.built => lk.built.payload = our_current_listeners(lk.built.snap)

\* C19 witness: a Response was built from a list with a restricted and two
\* other entries that replaced the list the Request had arrived under, while
\* the Listener is inside its next critical section.
C19_Witness ==
    /\ lk.built.built
    /\ Len(lk.built.snap) = 3
    /\ lk.built.payload # our_current_listeners(lk.built.at_request)
    /\ lk.wr.pc = "locked"

----------------------------------------------------------------------------
\* Bootstrap.

Connects == SelectSeq(boot.events, LAMBDA e : e.ev = "BootstrapConnect")
Failures == SelectSeq(boot.events, LAMBDA e : e.ev = "BootstrapFailed")

\* The safety part of C20.
C20_Outcome ==
    /\ Len(boot.events) <= 1
    /\ ~(Connects # <<>> /\ Failures # <<>>)
    /\ boot.pc = "running" => boot.events = <<>>
    /\ boot.pc = "finished" =>
            IF boot.cancelled THEN boot.events = <<>> ELSE Len(boot.events) = 1
    /\ Connects # <<>> => Connects[1].uid \in boot.reach /\ boot.st[Connects[1].uid] = "won"
    /\ (boot.pc = "finished" /\ ~boot.cancelled
            /\ boot.contacts \cap boot.reach = {} /\ ~boot.disc0)
        => boot.events = << BootstrapFailed >>

\* C20: a bootstrap attempt ends, with one BootstrapConnect, or one
\* BootstrapFailed, or no event when it was cancelled, never with two events;
\* with no reachable contact and no discovery it ends with one
\* BootstrapFailed unless it was cancelled.
C20_OneBootstrapOutcome ==
    /\ []C20_Outcome
    /\ <>(boot.pc = "finished")

\* C20 witness: c1 won the race while c2, reachable too, was still in flight
\* and was closed afterwards; only one event was emitted.
C20_Witness ==
    /\ boot.pc = "finished"
    /\ boot.st["c1"] = "won" /\ boot.st["c2"] = "closed"
    /\ {"c1", "c2"} \subseteq boot.reach
    /\ boot.events = << BootstrapConnect("c1") >>

----------------------------------------------------------------------------
\* The send attempts of one call, checked against the history u of accepted
\* Requests waiting for their Response: every send_to addresses the oldest
\* waiting requester; a send that has to be retried leaves the order as it was.
RECURSIVE InRequestOrder(_, _)
InRequestOrder(u, writes) ==
    IF writes = <<>> THEN TRUE
    ELSE LET w == Head(writes)
         IN  IF w.res = "nopeer" THEN InRequestOrder(u, Tail(writes))
             ELSE /\ u # <<>>
                  /\ w.peer = Head(u)
                  /\ InRequestOrder(AfterAnswers(u, <<w>>), Tail(writes))

\* C23: Responses leave in request order.  In every ready call each send_to
\* goes to the requester whose accepted Request is the oldest one not answered
\* yet, so Responses are sent in the order the accepted Requests were read,
\* and after a send that has to be retried the next attempt goes to the same
\* requester: no Response of a later Request overtakes it.
C23_InOrder ==
    last'.op = "ready" =>
        InRequestOrder(Waiting(unanswered[last'.n],
                               AcceptedFrom(sd[last'.n], last'.dgram)),
                       last'.writes)

C23_ResponsesInRequestOrder == [][C23_InOrder]_vars

\* C23 witness: with a Request of another peer queued behind it, the send to
\* the oldest requester had to be retried, and the next send of the same call
\* went to that requester again and was taken.
C23_Witness ==
    /\ IsReady
    /\ Len(last.writes) = 2
    /\ last.writes[1].res \in TransientSend
    /\ Len(last.writes[1].before) = 2
    /\ last.writes[1].before[1] # last.writes[1].before[2]
    /\ last.writes[2].res = "ok"
    /\ last.writes[2].peer = last.writes[1].peer

\* C24: interest invariant of the discovery socket.  Between two reactor
\* callbacks, a discovery state that is alive (in Core's registry) has its
\* socket registered, which in start and in write_impl always includes
\* readable, error and hup, and writable interest is registered if and only if
\* reply_to is not empty; every re-registration asks for exactly that set.
C24_InterestMatchesQueue ==
    /\ \A n \in Nodes :
          Alive(n) => /\ sd[n].registered
                      /\ sd[n].interest_w <=> (sd[n].reply_to # <<>>)
    /\ IsReady =>
          \A i \in 1..Len(last.writes) :
              LET w == last.writes[i]
              IN  w.event_set # "-" =>
                     w.event_set = IF w.after = <<>> THEN "readable" ELSE "readable|writable"

\* C24 witness: a state without writable interest accepted a Request whose
\* Response could not be sent at once; it is alive, the requester is queued and
\* writable interest is registered.
C24_Witness ==
    /\ IsReady
    /\ Alive(last.n)
    /\ last.pre.reply_to = <<>> /\ ~last.pre.interest_w
    /\ Me.reply_to # <<>> /\ Me.interest_w
    /\ Len(last.writes) = 1 /\ last.writes[1].res \in TransientSend

\* Every Response a call sent (send_to returned Ok(Some)) went to a requester
\* with an accepted Request still waiting in the history u, and used it up.
RECURSIVE EachAnswersOneRequest(_, _)
EachAnswersOneRequest(u, writes) ==
    IF writes = <<>> THEN TRUE
    ELSE LET w == Head(writes)
         IN  /\ w.res = "ok" => w.peer \in Range(u)
             /\ EachAnswersOneRequest(AfterAnswers(u, <<w>>), Tail(writes))

\* One invocation of write removes at most one address from reply_to, and
\* none when it sends nothing or has to retry; with reply_to empty it calls
\* send_to not at all.
C25_OnePerWrite ==
    IsReady =>
        \A i \in 1..Len(last.writes) :
            LET w == last.writes[i]
            IN  /\ Len(w.before) - Len(w.after) \in {0, 1}
                /\ Len(w.after) < Len(w.before) => w.res \in {"ok", "fatal"}
                /\ w.before = <<>> <=> w.res = "nopeer"
                /\ w.res = "nopeer" => w.peer \notin Addr

\* A writable event that finds reply_to empty sends nothing.
C25_NothingToSend ==
    (IsReady /\ "writable" \in last.es /\ last.mid.reply_to = <<>> /\ last.writes # <<>>)
        => last.writes[Len(last.writes)].res = "nopeer"

C25_AnswersWithinRequests ==
    last'.op = "ready" =>
        EachAnswersOneRequest(Waiting(unanswered[last'.n],
                                      AcceptedFrom(sd[last'.n], last'.dgram)),
                              last'.writes)

\* C25: no duplicate answers.  Each invocation of write sends at most one
\* Response and removes at most one address from reply_to; every Response
\* sent uses up one accepted Request of the address it goes to, so no address
\* is sent more Responses than it had Requests accepted; a writable event with
\* reply_to empty sends nothing.
C25_NoDuplicateAnswers ==
    /\ [](C25_OnePerWrite /\ C25_NothingToSend)
    /\ [][C25_AnswersWithinRequests]_vars

\* C25 witness: one peer had two Requests accepted, and one ready call sent it
\* two Responses, one from read and one for the writable event.
C25_Witness ==
    /\ IsReady
    /\ Len(last.writes) = 2
    /\ last.writes[1].res = "ok" /\ last.writes[2].res = "ok"
    /\ last.writes[1].peer = last.writes[2].peer
    /\ last.writes[1].before = <<last.writes[1].peer, last.writes[1].peer>>
    /\ Me.reply_to = <<>>

\* C26 (as claimed): a terminated discovery state is inert.  A ready call
\* reaches only a state that is not terminated, and once read has terminated
\* the state (socket deregistered, registry entries removed) the rest of the
\* same ready call sends no datagram and makes no registration call.
C26_TerminatedInert ==
    IsReady =>
        /\ Kept(last.pre)
        /\ (Gone(last.mid) /\ "writable" \in last.es /\ last.es \cap {"error", "hup"} = {}) =>
              LET w == last.writes[Len(last.writes)]
              IN  /\ w.res # "ok"
                  /\ w.rereg = "skipped"

----------------------------------------------------------------------------
\* examples/crust_node: the event-handling thread keeps a FlatWorld, a table
\* of the endpoints it was told about, and updates it on every NewConnection
\* and LostConnection event of the service.

Endpoints == {"e1", "e2", "e3"}

\* No discovery instance, port scan, command loop, Listener or bootstrap runs.
DiscoveryIdle ==
    /\ sd = [n \in Nodes |-> Absent(n)]
    /\ our_listeners = [n \in Nodes |-> <<>>]
    /\ rx_open = [o \in Observers |-> TRUE]
    /\ obs_used = {}
    /\ seeks = 0
    /\ last = Quiet("idle", "A", Absent("A"))
    /\ OnlyDiscovery
    /\ accepted = NoneAccepted /\ unanswered = NoneUnanswered

DiscoveryFrame ==
    UNCHANGED <<sd, our_listeners, rx_open, obs_used, seeks, last, scan, el, lk, boot,
                accepted, unanswered>>

\* CrustNode::new
CrustNode(endpoint, connected) == [endpoint |-> endpoint, connected |-> connected]

\* Mutation of add_node: the node is pushed without looking for a duplicate.
add_node_unchecked(crust_nodes, new_node) ==
    [crust_nodes |-> Append(crust_nodes, new_node), ret |-> TRUE]

\* FlatWorld::add_node: push the node if no entry has its endpoint and return
\* true; otherwise set connected on the entries with that endpoint and
\* return false.
add_node(crust_nodes, new_node) ==
    IF Cardinality({i \in 1..Len(crust_nodes) :
                        crust_nodes[i].endpoint = new_node.endpoint}) = 0
    THEN [crust_nodes |-> Append(crust_nodes, new_node), ret |-> TRUE]
    ELSE [crust_nodes |-> [i \in 1..Len(crust_nodes) |->
                             IF crust_nodes[i].endpoint = new_node.endpoint
                             THEN [crust_nodes[i] EXCEPT !.connected = TRUE]
                             ELSE crust_nodes[i]],
          ret |-> FALSE]

\* FlatWorld::drop_node: clear connected on the entries with the endpoint.
drop_node(crust_nodes, lost_node) ==
    [i \in 1..Len(crust_nodes) |->
        IF crust_nodes[i].endpoint = lost_node.endpoint
        THEN [crust_nodes[i] EXCEPT !.connected = FALSE]
        ELSE crust_nodes[i]]

\* FlatWorld::print_connected_nodes: the endpoints of the connected entries,
\* in table order.
RECURSIVE connected_nodes(_)
connected_nodes(crust_nodes) ==
    IF crust_nodes = <<>> THEN <<>>
    ELSE (IF Head(crust_nodes).connected THEN <<Head(crust_nodes).endpoint>> ELSE <<>>)
         \o connected_nodes(Tail(crust_nodes))

\* FlatWorld::new, before the first event.  event, ret, before and shown
\* record the last event handled; ev the last event of every endpoint.
FlatWorld ==
    [pc |-> "on", crust_nodes |-> <<>>,
     event |-> "-", endpoint |-> "-", ret |-> "-", before |-> <<>>, shown |-> <<>>,
     ev |-> [e \in Endpoints |-> "-"]]

\* Event::NewConnection(endpoint)
NewConnection(endpoint) ==
    /\ fw.pc = "on"
    /\ LET r == add_node(fw.crust_nodes, CrustNode(endpoint, TRUE))
       IN  fw' = [fw EXCEPT !.crust_nodes = r.crust_nodes,
                            !.event = "NewConnection", !.endpoint = endpoint,
                            !.ret = r.ret, !.before = fw.crust_nodes,
                            !.shown = connected_nodes(r.crust_nodes),
                            !.ev[endpoint] = "NewConnection"]
    /\ DiscoveryFrame /\ UNCHANGED <<dup, fs>>

\* Event::LostConnection(endpoint)
LostConnection(endpoint) ==
    /\ fw.pc = "on"
    /\ LET nodes == drop_node(fw.crust_nodes, CrustNode(endpoint, FALSE))
       IN  fw' = [fw EXCEPT !.crust_nodes = nodes,
                            !.event = "LostConnection", !.endpoint = endpoint,
                            !.ret = "-", !.before = fw.crust_nodes,
                            !.shown = connected_nodes(nodes),
                            !.ev[endpoint] = "LostConnection"]
    /\ DiscoveryFrame /\ UNCHANGED <<dup, fs>>

\* SpecWorld: the event thread handles connection events of three endpoints
\* in any order.
InitWorld == DiscoveryIdle /\ fw = FlatWorld /\ dup = NotRunning /\ fs = NotRunning

NextWorld ==
    \/ \E e \in Endpoints : NewConnection(e)
    \/ \E e \in Endpoints : LostConnection(e)

SpecWorld == InitWorld /\ [][NextWorld]_vars

EndpointsOf(crust_nodes) == { crust_nodes[i].endpoint : i \in 1..Len(crust_nodes) }

\* C27: the FlatWorld node table.  No two entries share an endpoint and no
\* entry is ever removed (every entry keeps its place and endpoint); add_node
\* returns true exactly when the endpoint was absent, and then appends it;
\* otherwise it returns false and marks the existing entry connected,
\* leaving the others alone; an endpoint is shown as connected iff the last
\* NewConnection / LostConnection event for it was NewConnection.
C27_FlatWorldTable ==
    fw.pc = "on" =>
        LET now == fw.crust_nodes
            was == fw.before
        IN  /\ \A i, j \in 1..Len(now) : now[i].endpoint = now[j].endpoint => i = j
            /\ Len(was) <= Len(now)
            /\ \A i \in 1..Len(was) : now[i].endpoint = was[i].endpoint
            /\ fw.event = "NewConnection" =>
                  /\ fw.ret \in BOOLEAN
                  /\ fw.ret <=> fw.endpoint \notin EndpointsOf(was)
                  /\ fw.ret => now = Append(was, CrustNode(fw.endpoint, TRUE))
                  /\ ~fw.ret =>
                        /\ Len(now) = Len(was)
                        /\ \A i \in 1..Len(was) :
                              now[i].connected = IF was[i].endpoint = fw.endpoint
                                                 THEN TRUE ELSE was[i].connected
            /\ \A e \in Endpoints :
                  e \in Range(fw.shown) <=> fw.ev[e] = "NewConnection"

\* C27 witness: with three endpoints in the table, a NewConnection for an
\* endpoint whose connection had been lost was handled: add_node returned
\* false and the entry is connected again.
C27_Witness ==
    /\ fw.pc = "on"
    /\ fw.event = "NewConnection" /\ fw.ret = FALSE
    /\ Len(fw.crust_nodes) = 3
    /\ \E i \in 1..3 :
          /\ fw.before[i].endpoint = fw.endpoint
          /\ ~fw.before[i].connected
          /\ fw.crust_nodes[i].connected
    /\ \E e \in Endpoints : fw.ev[e] = "LostConnection"

----------------------------------------------------------------------------
\* Duplicate-peer tie-break (spec 4.D.6; the peer module is not among the
\* sources).  Two nodes X and Y are joined by two sockets, each with the
\* nonce of its handshake; every end completes the handshakes in any order,
\* creates a Peer for the remote uid on success, and on a second success
\* keeps one of the two sockets and closes the other.  A socket closed at one
\* end is seen closed at the other, whose Peer on it is destroyed.

Ends == {"X", "Y"}
Socks == {"s1", "s2"}
\* Handshake nonces are taken from 1..MaxNonce.
MaxNonce == 2
Nonces == 1..MaxNonce

\* Both sockets connected, no handshake completed.  open[e] are the sockets
\* open at end e, done[e] those whose handshake completed there, peers[e]
\* those held by a Peer for the remote uid.
Connections(nonce) ==
    [pc |-> "on", nonce |-> nonce,
     open |-> [e \in Ends |-> Socks],
     done |-> [e \in Ends |-> {}],
     peers |-> [e \in Ends |-> {}]]

\* Mutation of keep: the socket whose handshake completed last is kept.
keep_newest(nonce, old, new) == {new}

\* The sockets the tie-break may keep: the one whose nonce is lower; for
\* equal nonces no rule is given, and either may be kept.
keep(nonce, old, new) ==
    IF nonce[new] < nonce[old] THEN {new}
    ELSE IF nonce[old] < nonce[new] THEN {old}
    ELSE {old, new}

\* The handshake on socket s completes at end e.
HandshakeDone(e, s) ==
    /\ dup.pc = "on"
    /\ s \in dup.open[e] \ dup.done[e]
    /\ IF dup.peers[e] = {}
       THEN dup' = [dup EXCEPT !.done[e] = @ \cup {s}, !.peers[e] = {s}]
       ELSE LET old == CHOOSE o \in dup.peers[e] : TRUE
            IN  \E k \in keep(dup.nonce, old, s) :
                   dup' = [dup EXCEPT !.done[e] = @ \cup {s},
                                      !.peers[e] = {k},
                                      !.open[e] = @ \ ({old, s} \ {k})]
    /\ DiscoveryFrame /\ UNCHANGED <<fw, fs>>

\* End e finds socket s closed by the other end.
RemoteClosed(e, s) ==
    /\ dup.pc = "on"
    /\ s \in dup.open[e]
    /\ \E r \in Ends \ {e} : s \notin dup.open[r]
    /\ dup' = [dup EXCEPT !.open[e] = @ \ {s}, !.peers[e] = @ \ {s}]
    /\ DiscoveryFrame /\ UNCHANGED <<fw, fs>>

\* SpecPeers: two sockets with any nonces, handshakes completing in any order.
InitPeers ==
    /\ DiscoveryIdle /\ fw = NotRunning /\ fs = NotRunning
    /\ \E nonce \in [Socks -> Nonces] : dup = Connections(nonce)

NextPeers ==
    \/ \E e \in Ends, s \in Socks : HandshakeDone(e, s)
    \/ \E e \in Ends, s \in Socks : RemoteClosed(e, s)

SpecPeers == InitPeers /\ [][NextPeers]_vars

\* Nothing is in progress: every open socket has completed its handshake at
\* both ends and no close is on its way.
Settled ==
    /\ dup.open["X"] = dup.open["Y"]
    /\ \A e \in Ends : dup.open[e] \subseteq dup.done[e]

----------------------------------------------------------------------------
\* Framed socket, outbound side (spec 4.B; the socket module is not among the
\* sources).  write(message, priority) enqueues (priority, sequence, bytes);
\* when the stream is writable the next message is taken from the queue and
\* written as one frame; the stream delivers frames in the order written.
\* Lower priority values are sent first, priority 0 being the highest.

\* Priorities are 0..MaxPriority.
MaxPriority == 2
\* write calls in a scenario.
MaxWrites == 4
\* Queue length from which writes of priorities below the highest fail.
HighWater == 2

\* A connected socket with nothing written.  seq is the next sequence
\* number, sent the frames written to the stream, delivered those the
\* remote end has read, peeked the queue the last frame was taken from.
FramedSocket ==
    [pc |-> "on", queue |-> {}, seq |-> 1, sent |-> <<>>, delivered |-> <<>>,
     peeked |-> {}, ret |-> "-"]

\* Mutation of next_msg: the message with the lowest sequence number.
next_msg_by_sequence(queue) ==
    CHOOSE m \in queue : \A o \in queue : m.seq <= o.seq

\* The peek of the next message to send: priority first, then FIFO by
\* sequence within a priority.
next_msg(queue) ==
    CHOOSE m \in queue :
        \A o \in queue : m.prio < o.prio \/ (m.prio = o.prio /\ m.seq <= o.seq)

\* write(message, priority): a message larger than MAX_PAYLOAD_SIZE is
\* rejected; with the queue at the high-water mark a message of a priority
\* below the highest fails; otherwise it is enqueued with the next sequence
\* number.
Write(priority, size) ==
    /\ fs.pc = "on"
    /\ fs.seq <= MaxWrites
    /\ fs' = IF size = "oversize" THEN [fs EXCEPT !.ret = "WriteMsgSizeProhibitive"]
             ELSE IF priority > 0 /\ Cardinality(fs.queue) >= HighWater
             THEN [fs EXCEPT !.ret = "WouldBlock"]
             ELSE [fs EXCEPT !.queue = @ \cup {[prio |-> priority, seq |-> fs.seq]},
                             !.seq = @ + 1, !.ret = "Ok"]
    /\ DiscoveryFrame /\ UNCHANGED <<fw, dup>>

\* The stream is writable: the next message leaves the queue as one frame.
SendNext ==
    /\ fs.pc = "on"
    /\ fs.queue # {}
    /\ LET m == next_msg(fs.queue)
       IN  fs' = [fs EXCEPT !.queue = @ \ {m}, !.sent = Append(@, m),
                            !.peeked = fs.queue, !.ret = "-"]
    /\ DiscoveryFrame /\ UNCHANGED <<fw, dup>>

\* The remote end reads the next complete frame from the stream.
Deliver ==
    /\ fs.pc = "on"
    /\ Len(fs.delivered) < Len(fs.sent)
    /\ fs' = [fs EXCEPT !.delivered = Append(@, fs.sent[Len(fs.delivered) + 1]), !.ret = "-"]
    /\ DiscoveryFrame /\ UNCHANGED <<fw, dup>>

\* SpecSocket: writes of any priority and size, interleaved with sends and
\* deliveries.
InitSocket == DiscoveryIdle /\ fw = NotRunning /\ dup = NotRunning /\ fs = FramedSocket

NextSocket ==
    \/ \E priority \in 0..MaxPriority, size \in {"ok", "oversize"} : Write(priority, size)
    \/ SendNext
    \/ Deliver

SpecSocket == InitSocket /\ [][NextSocket]_vars

\* Frames of one priority class appear in the order they were written.
InClassOrder(frames) ==
    \A i, j \in 1..Len(frames) :
        (i < j /\ frames[i].prio = frames[j].prio) => frames[i].seq < frames[j].seq

\* C22: framed socket ordering.  Messages of the same priority class are sent
\* and delivered in the order they were written, frames are delivered in the
\* order sent, and the message taken from the outbound queue is always the one
\* with the best priority and, among those, the lowest sequence number.
C22_FramedOrder ==
    fs.pc = "on" =>
        /\ InClassOrder(fs.sent)
        /\ InClassOrder(fs.delivered)
        /\ fs.delivered = SubSeq(fs.sent, 1, Len(fs.delivered))
        /\ fs.sent # <<>> =>
              LET m == fs.sent[Len(fs.sent)]
              IN  /\ m \in fs.peeked
                  /\ \A o \in fs.peeked :
                        m.prio < o.prio \/ (m.prio = o.prio /\ m.seq <= o.seq)

\* C22 witness: two messages of one class were delivered in the order
\* written, after a message of a better priority written later than both.
C22_Witness ==
    /\ fs.pc = "on"
    /\ Len(fs.delivered) = 3
    /\ fs.delivered[1].prio < fs.delivered[2].prio
    /\ fs.delivered[2].prio = fs.delivered[3].prio
    /\ fs.delivered[1].seq > fs.delivered[3].seq

====
